---- MODULE Spec2Model ----
(***************************************************************************)
(* Model of gcode-picknplace.cc: the configuration loader                  *)
(* GCodePickNPlace::ParseConfig, the constructor, and the generator        *)
(* Init / PrintPart / Finish.  The Tape class (tape.h) is not among the    *)
(* sources; its operations are modelled from the written specification     *)
(* (section 4.2: origin, spacing, angle, capacity, cursor).                *)
(*                                                                         *)
(* Numbers are integers standing for exactly representable floats.  A      *)
(* configuration line is a directive token plus the rest of the line, the  *)
(* latter a sequence of whitespace separated words.                        *)
(***************************************************************************)
EXTENDS Integers, Sequences, FiniteSets, TLC

\* ------------------------------------------------------------------ bounds
MaxLines == 3        \* configuration lines read before end of file
MaxTapes == 2        \* Tape: directives in one configuration
MaxParts == 3        \* placement requests in one run

\* --------------------------------------------------------- program constants
Z_HOVERING == 10
TAPE_TO_BOARD_DIFFZ == -2
\* ANGLE_FACTOR = 50.34965 / 360, kept as an exact fraction Num / Den
ANGLE_FACTOR_NUM == 5034965
ANGLE_FACTOR_DEN == 36000000

\* ------------------------------------------------------------------ inputs
KeyWords == {"R@1", "C@1"}
\* The words sscanf converts, and the value of each.
NumberWords == ("0" :> 0) @@ ("2" :> 2) @@ ("-1" :> -1)
PlainNumbers == {"0", "2"}
JunkWords == {"x"}
Words == JunkWords \cup PlainNumbers

\* Rest of a Tape: line: no name, one name, two names (also the same twice).
TapeBuffers ==
    {<<>>} \cup {<<a>> : a \in KeyWords} \cup {<<a, b>> : a, b \in KeyWords}

\* Rest of a numeric line: up to two words of any kind, or three numbers.
NumBuffers ==
    {<<>>} \cup {<<a>> : a \in Words} \cup {<<a, b>> : a, b \in Words}
    \cup {<<a, b, c>> : a, b, c \in PlainNumbers}

\* Rest of a count: line: as above, or a negative integer.
CountBuffers == NumBuffers \cup {<<"-1">>}

Directives == {"Board:", "Tape:", "origin:", "spacing:", "angle:", "count:"}
CommentTokens == {"#"}
UnknownTokens == {"feeder:"}
Tokens == Directives \cup CommentTokens \cup UnknownTokens \cup {""}

BuffersFor(token) ==
    IF token = "Tape:" THEN TapeBuffers
    ELSE IF token = "count:" THEN CountBuffers
    ELSE IF token \in {"origin:", "spacing:", "angle:"} THEN NumBuffers
    ELSE IF token \in UnknownTokens THEN {<<>>, <<"2">>}
    ELSE {<<>>}

Footprints == {"R", "C"}
Values == {"1"}
Names == {"U1"}
PartPositions == {<<5, 5>>}
PartAngles == {10}
Parts == [component_name : Names, footprint : Footprints, value : Values,
          pos : PartPositions, angle : PartAngles]

\* Target angles of either sign, within and beyond one turn.
WideAngles == {-400, -10, 10, 370}
WideParts == [component_name : Names, footprint : {"R"}, value : Values,
              pos : PartPositions, angle : WideAngles]

VARIABLES
    pc,                  \* position in the run
    result,              \* ParseConfig: unique_ptr result is non-null
    config_,             \* GCodePickNPlace::config_ : "unset", "config", "NULL"
    current_tape,        \* ParseConfig: 0 is NULL, else index into tapes
    tapes,               \* the Tape objects, in order of creation
    tape_for_component,  \* Config::tape_for_component
    board_origin,        \* Config::board_origin
    out,                 \* stdout: sequence of command blocks
    diag,                \* stderr: sequence of diagnostics
    nlines,              \* configuration lines read so far
    parts,               \* history: the requests presented, in order
    listed,              \* history: per tape, the keys on its Tape: line
    last_angle,          \* history: per tape, <<a>> for the last angle: a
    seen,                \* history: kinds of configuration lines read
    context,             \* history: reel opened by the last Tape:, 0 if none
                         \* or if a Board: line came after it
    last_board,          \* history: <<x, y>> of the last board origin: x y
    stream               \* std::ifstream in: "good" or "fail"

vars == <<pc, result, config_, current_tape, tapes, tape_for_component,
          board_origin, out, diag, nlines, parts, listed, last_angle, seen,
          context, last_board, stream>>

cfgvars == <<current_tape, tapes, tape_for_component, board_origin>>
histvars == <<listed, last_angle, context, last_board>>

\* ------------------------------------------------------------ pure helpers
Min(a, b) == IF a < b THEN a ELSE b

\* fmod(a, m) of the C library, m > 0: the result carries the sign of a.
Fmod(a, m) == IF a >= 0 THEN a % m ELSE 0 - ((0 - a) % m)

IsNumber(w) == w \in DOMAIN NumberWords

\* Length of the longest prefix of buffer made of numeric words.
NumPrefixLen(buffer) ==
    LET good == {k \in 0..Len(buffer) : \A i \in 1..k : IsNumber(buffer[i])}
    IN  CHOOSE k \in good : \A j \in good : j <= k

\* sscanf(buffer, "%f ... %f", ...) with n conversions: the number of
\* conversions assigned, or EOF (-1) when the input ends before the first.
SscanfCount(buffer, n) ==
    IF buffer = <<>> THEN -1 ELSE Min(n, NumPrefixLen(buffer))

\* The i-th value sscanf assigned (i <= SscanfCount).
SscanfValue(buffer, i) == NumberWords[buffer[i]]

\* The words a Tape: line binds: the loop reads once even on an empty rest
\* of line, binding the (cleared, hence empty) token.
TapeNames(buffer) ==
    IF buffer = <<>> THEN {""} ELSE {buffer[i] : i \in 1..Len(buffer)}

\* ------------------------------------------------------------------- Tape
\* Capacity of a reel that received no count: line.  The written
\* specification leaves it open; the value here is larger than any run the
\* bounds allow.
TapeDefaultCapacity == 1000

NewTape ==
    [x |-> 0, y |-> 0, z |-> 0, dx |-> 0, dy |-> 0, angle |-> 0,
     capacity |-> TapeDefaultCapacity, cursor |-> 0]

SetFirstComponentPosition(t, x, y, z) == [t EXCEPT !.x = x, !.y = y, !.z = z]

SetComponentSpacing(t, dx, dy) == [t EXCEPT !.dx = dx, !.dy = dy]

SetAngle(t, a) == [t EXCEPT !.angle = a]

SetNumberComponents(t, count) == [t EXCEPT !.capacity = count]

TapeAngle(t) == t.angle

\* Variant: the cursor is advanced before the slot is computed.
GetNextPosAdvancesFirst(t) ==
    IF t.cursor = t.capacity
    THEN [ok |-> FALSE, x |-> 0, y |-> 0, z |-> 0, tape |-> t]
    ELSE [ok |-> TRUE,
          x |-> t.x + (t.cursor + 1) * t.dx,
          y |-> t.y + (t.cursor + 1) * t.dy,
          z |-> t.z,
          tape |-> [t EXCEPT !.cursor = t.cursor + 1]]

\* Variant: the cursor is advanced also when the reel is exhausted.
GetNextPosCountsOn(t) ==
    IF t.cursor = t.capacity
    THEN [ok |-> FALSE, x |-> 0, y |-> 0, z |-> 0,
          tape |-> [t EXCEPT !.cursor = t.cursor + 1]]
    ELSE [ok |-> TRUE,
          x |-> t.x + t.cursor * t.dx,
          y |-> t.y + t.cursor * t.dy,
          z |-> t.z,
          tape |-> [t EXCEPT !.cursor = t.cursor + 1]]

\* NextPosition: [ok, x, y, z, tape], tape being the reel after the call.
GetNextPos(t) ==
    IF t.cursor = t.capacity
    THEN [ok |-> FALSE, x |-> 0, y |-> 0, z |-> 0, tape |-> t]
    ELSE [ok |-> TRUE,
          x |-> t.x + t.cursor * t.dx,
          y |-> t.y + t.cursor * t.dy,
          z |-> t.z,
          tape |-> [t EXCEPT !.cursor = t.cursor + 1]]

\* ------------------------------------------------------------------- Init
NoBinding == [k \in {} |-> 0]

\* The state after std::ifstream in(filename): the file was opened, or it
\* could not be (failbit set, eofbit clear).
Init ==
    /\ stream \in {"good", "fail"}
    /\ pc = "parse"
    /\ result = TRUE
    /\ config_ = "unset"
    /\ current_tape = 0
    /\ tapes = <<>>
    /\ tape_for_component = NoBinding
    /\ board_origin = [x |-> 0, y |-> 0]
    /\ out = <<>>
    /\ diag = <<>>
    /\ nlines = 0
    /\ parts = <<>>
    /\ listed = <<>>
    /\ last_angle = <<>>
    /\ seen = {}
    /\ context = 0
    /\ last_board = <<>>

\* ------------------------------------------------------------ ParseConfig
\* Values a float local may hold when sscanf did not assign it (left over
\* from an earlier line, or never initialised).
StaleValues == {NumberWords[w] : w \in DOMAIN NumberWords}

\* result.reset(NULL): the Config is destroyed.  Setter calls that follow in
\* the same branch act on a Tape no Config refers to any more.
Reset(msgs) ==
    /\ result' = FALSE
    /\ pc' = "failed"
    /\ diag' = diag \o msgs
    /\ UNCHANGED cfgvars

Continue == UNCHANGED <<result, pc, diag>>

ParseBoard ==
    /\ current_tape' = 0
    /\ UNCHANGED <<tapes, tape_for_component, board_origin>>
    /\ Continue

\* Variant: map::insert, which keeps the binding a name already has.
BindNamesKeepsFirst(map, names, tape) ==
    [k \in (DOMAIN map) \cup names |-> IF k \in DOMAIN map THEN map[k] ELSE tape]

\* tape_for_component[token] = current_tape for every name of the line.
BindNames(map, names, tape) ==
    [k \in (DOMAIN map) \cup names |-> IF k \in names THEN tape ELSE map[k]]

ParseTape(buffer) ==
    /\ tapes' = Append(tapes, NewTape)
    /\ current_tape' = Len(tapes) + 1
    /\ tape_for_component' =
           BindNames(tape_for_component, TapeNames(buffer), Len(tapes) + 1)
    /\ UNCHANGED board_origin
    /\ Continue

ParseOrigin(buffer) ==
    IF current_tape # 0
    THEN IF SscanfCount(buffer, 3) # 3
         THEN Reset(<<[msg |-> "Parse problem tape origin"]>>)
         ELSE /\ tapes' = [tapes EXCEPT ![current_tape] =
                     SetFirstComponentPosition(@, SscanfValue(buffer, 1),
                         SscanfValue(buffer, 2), SscanfValue(buffer, 3))]
              /\ UNCHANGED <<current_tape, tape_for_component, board_origin>>
              /\ Continue
    ELSE IF SscanfCount(buffer, 2) # 2
         THEN Reset(<<[msg |-> "Parse problem board origin"]>>)
         ELSE /\ board_origin' = [x |-> SscanfValue(buffer, 1),
                                  y |-> SscanfValue(buffer, 2)]
              /\ UNCHANGED <<current_tape, tapes, tape_for_component>>
              /\ Continue

\* Variant: the test on y is inverted.
SpacingIsZeroInverted(x, y) == x = 0 /\ y # 0

SpacingIsZero(x, y) == x = 0 /\ y = 0

ParseSpacing(buffer) ==
    IF current_tape = 0
    THEN Reset(<<[msg |-> "spacing without tape"]>>)
    ELSE IF SscanfCount(buffer, 2) # 2
    THEN \E sx, sy \in StaleValues :
            LET x == IF SscanfCount(buffer, 2) >= 1
                     THEN SscanfValue(buffer, 1) ELSE sx
            IN  Reset(<<[msg |-> "Parse problem spacing"]>> \o
                      (IF SpacingIsZero(x, sy)
                       THEN <<[msg |-> "Spacing: eat least one needs to be set"]>>
                       ELSE <<>>))
    ELSE IF SpacingIsZero(SscanfValue(buffer, 1), SscanfValue(buffer, 2))
    THEN Reset(<<[msg |-> "Spacing: eat least one needs to be set"]>>)
    ELSE /\ tapes' = [tapes EXCEPT ![current_tape] =
                SetComponentSpacing(@, SscanfValue(buffer, 1),
                                       SscanfValue(buffer, 2))]
         /\ UNCHANGED <<current_tape, tape_for_component, board_origin>>
         /\ Continue

\* The branch that parses one number and calls SetAngle.
ParseAngle(buffer) ==
    IF current_tape = 0
    THEN Reset(<<[msg |-> "spacing without tape"]>>)
    ELSE IF SscanfCount(buffer, 1) # 1
    THEN Reset(<<[msg |-> "Parse problem angle"]>>)
    ELSE /\ tapes' = [tapes EXCEPT ![current_tape] =
                SetAngle(@, SscanfValue(buffer, 1))]
         /\ UNCHANGED <<current_tape, tape_for_component, board_origin>>
         /\ Continue

\* Variant: the count goes to the first reel of the file.
ParseCountFirstReel(buffer) ==
    IF current_tape = 0
    THEN Reset(<<[msg |-> "Count without tape."]>>)
    ELSE IF SscanfCount(buffer, 1) # 1
    THEN Reset(<<[msg |-> "Parse problem count"]>>)
    ELSE /\ tapes' = [tapes EXCEPT ![1] =
                SetNumberComponents(@, SscanfValue(buffer, 1))]
         /\ UNCHANGED <<current_tape, tape_for_component, board_origin>>
         /\ Continue

ParseCount(buffer) ==
    IF current_tape = 0
    THEN Reset(<<[msg |-> "Count without tape."]>>)
    ELSE IF SscanfCount(buffer, 1) # 1
    THEN Reset(<<[msg |-> "Parse problem count"]>>)
    ELSE /\ tapes' = [tapes EXCEPT ![current_tape] =
                SetNumberComponents(@, SscanfValue(buffer, 1))]
         /\ UNCHANGED <<current_tape, tape_for_component, board_origin>>
         /\ Continue

\* token.empty() || token[0] == '#'
IsSkipped(token) == token = "" \/ token \in CommentTokens

\* Variant: a token that matches no branch ends the parse.
DispatchRejectsUnknown(token, buffer) ==
    IF IsSkipped(token) THEN UNCHANGED cfgvars /\ Continue
    ELSE IF token = "Board:" THEN ParseBoard
    ELSE IF token = "Tape:" THEN ParseTape(buffer)
    ELSE IF token = "origin:" THEN ParseOrigin(buffer)
    ELSE IF token = "spacing:" THEN ParseSpacing(buffer)
    ELSE IF token = "spacing:" THEN ParseAngle(buffer)
    ELSE IF token = "count:" THEN ParseCount(buffer)
    ELSE Reset(<<[msg |-> "Unknown directive"]>>)

\* The if / else-if chain of the loop body, in source order.  The guard of
\* the fifth branch repeats the guard of the fourth.
Dispatch(token, buffer) ==
    IF IsSkipped(token) THEN UNCHANGED cfgvars /\ Continue
    ELSE IF token = "Board:" THEN ParseBoard
    ELSE IF token = "Tape:" THEN ParseTape(buffer)
    ELSE IF token = "origin:" THEN ParseOrigin(buffer)
    ELSE IF token = "spacing:" THEN ParseSpacing(buffer)
    ELSE IF token = "spacing:" THEN ParseAngle(buffer)
    ELSE IF token = "count:" THEN ParseCount(buffer)
    ELSE UNCHANGED cfgvars /\ Continue

\* --- history of the configuration lines read (not program state)
\* Number of values the directive needs in the context it is issued in.
Arity(token, ctx) ==
    IF token = "origin:" THEN (IF ctx # 0 THEN 3 ELSE 2)
    ELSE IF token = "spacing:" THEN 2
    ELSE 1

Malformed(token, buffer, ctx) ==
    /\ token \in {"origin:", "spacing:", "angle:", "count:"}
    /\ SscanfCount(buffer, Arity(token, ctx)) # Arity(token, ctx)

Orphan(token, ctx) == token \in {"spacing:", "angle:", "count:"} /\ ctx = 0

ZeroSpacing(token, buffer, ctx) ==
    /\ token = "spacing:"
    /\ ctx # 0
    /\ SscanfCount(buffer, 2) = 2
    /\ SscanfValue(buffer, 1) = 0
    /\ SscanfValue(buffer, 2) = 0

LineTags(token, buffer, ctx) ==
    (IF Malformed(token, buffer, ctx) THEN {<<"malformed", token>>} ELSE {})
    \cup (IF Orphan(token, ctx) THEN {<<"orphan", token>>} ELSE {})
    \cup (IF ZeroSpacing(token, buffer, ctx) THEN {<<"zero", token>>} ELSE {})
    \cup (IF token \in UnknownTokens THEN {<<"unknown", token>>} ELSE {})

Record(token, buffer) ==
    /\ seen' = seen \cup LineTags(token, buffer, context)
    /\ context' = IF token = "Tape:" THEN Len(listed) + 1
              ELSE IF token = "Board:" THEN 0
              ELSE context
    /\ last_board' =
         IF token = "origin:" /\ context = 0 /\ SscanfCount(buffer, 2) = 2
         THEN <<SscanfValue(buffer, 1), SscanfValue(buffer, 2)>>
         ELSE last_board
    /\ listed' = IF token = "Tape:"
                 THEN Append(listed, TapeNames(buffer)) ELSE listed
    /\ last_angle' =
         IF token = "Tape:" THEN Append(last_angle, <<>>)
         ELSE IF token = "angle:" /\ context # 0
                 /\ SscanfCount(buffer, 1) = 1
         THEN [last_angle EXCEPT ![context] = <<SscanfValue(buffer, 1)>>]
         ELSE last_angle

\* One iteration of while (result && !in.eof()) on the line made of token
\* and the rest of the line buffer.
ReadLine(token, buffer) ==
    /\ pc = "parse"
    /\ result
    /\ stream = "good"
    /\ nlines < MaxLines
    /\ token = "Tape:" => Len(tapes) < MaxTapes
    /\ Dispatch(token, buffer)
    /\ Record(token, buffer)
    /\ nlines' = nlines + 1
    /\ UNCHANGED <<config_, out, parts, stream>>

\* Read a token and the rest of the line, then dispatch.
ParseLine ==
    \E token \in Tokens : \E buffer \in BuffersFor(token) :
        ReadLine(token, buffer)

\* One iteration on a stream in the failed state: in >> token extracts
\* nothing, token stays empty, getline extracts nothing, continue.  eof() is
\* never set, so the loop condition holds again.
ParseUnreadable ==
    /\ pc = "parse"
    /\ result
    /\ stream = "fail"
    /\ UNCHANGED vars

\* The loop ends (end of file, or result is null) and result.release() is
\* returned into config_.
ParseReturn ==
    /\ \/ pc = "parse" /\ stream = "good"
       \/ pc = "failed"
    /\ pc' = "returned"
    /\ config_' = IF result THEN "config" ELSE "NULL"
    /\ UNCHANGED <<result, cfgvars, out, diag, nlines, parts, histvars, seen, stream>>

\* ------------------------------------------------------------- generator
\* GCodePickNPlace::GCodePickNPlace: assert(config_).
Construct ==
    /\ pc = "returned"
    /\ pc' = IF config_ = "config" THEN "constructed" ELSE "aborted"
    /\ UNCHANGED <<result, config_, cfgvars, out, diag, nlines, parts,
                   histvars, seen, stream>>

InitPrinter ==
    /\ pc = "constructed"
    /\ out' = Append(out, [kind |-> "preamble"])
    /\ pc' = "run"
    /\ UNCHANGED <<result, config_, cfgvars, diag, nlines, parts,
                   histvars, seen, stream>>

Key(part) == part.footprint \o "@" \o part.value

PrintName(part) == part.component_name \o " (" \o Key(part) \o ")"

\* ANGLE_FACTOR * a, as an exact fraction.
Scaled(a) == [num |-> ANGLE_FACTOR_NUM * a, den |-> ANGLE_FACTOR_DEN]

PickAngle(t) == Fmod(TapeAngle(t), 360)

PlaceAngle(part, t) == Fmod(part.angle - TapeAngle(t) + 360, 360)

PickBlock(part, t, p, n) ==
    [kind |-> "pick", name |-> PrintName(part),
     x |-> p.x, y |-> p.y, zup |-> p.z + Z_HOVERING,
     e |-> Scaled(PickAngle(t)),
     zdown |-> p.z, zback |-> p.z + Z_HOVERING, req |-> n]

\* Variant: the place block at the target itself.
PlaceBlockAtTarget(part, t, p, n) ==
    [kind |-> "place", name |-> PrintName(part),
     x |-> part.pos[1], y |-> part.pos[2],
     zup |-> p.z + Z_HOVERING,
     e |-> Scaled(PlaceAngle(part, t)),
     zdown |-> p.z + TAPE_TO_BOARD_DIFFZ, zback |-> p.z + Z_HOVERING,
     req |-> n]

PlaceBlock(part, t, p, n) ==
    [kind |-> "place", name |-> PrintName(part),
     x |-> part.pos[1] + board_origin.x, y |-> part.pos[2] + board_origin.y,
     zup |-> p.z + Z_HOVERING,
     e |-> Scaled(PlaceAngle(part, t)),
     zdown |-> p.z + TAPE_TO_BOARD_DIFFZ, zback |-> p.z + Z_HOVERING,
     req |-> n]

\* Variant: the two printf calls in the other order.
EmitPlaceFirst(part, t, p, n) ==
    <<PlaceBlock(part, t, p, n), PickBlock(part, t, p, n)>>

\* What one accepted request writes to stdout (req: its position in the
\* input, an annotation).
Emit(part, t, p, n) == <<PickBlock(part, t, p, n), PlaceBlock(part, t, p, n)>>

\* Variant: map::lower_bound, the first entry whose key is not less; the
\* first reel stands for it here.
FindLowerBound(key) ==
    IF key \in DOMAIN tape_for_component THEN tape_for_component[key]
    ELSE IF Len(tapes) > 0 THEN 1 ELSE 0

\* tape_for_component.find(key): 0 stands for end().
Find(key) ==
    IF key \in DOMAIN tape_for_component THEN tape_for_component[key] ELSE 0

\* found == end(): one diagnostic, return.
NoTape(part) ==
    /\ diag' = Append(diag, [msg |-> "No tape for", arg |-> Key(part)])
    /\ UNCHANGED <<tapes, out>>

\* Variant: the return after the diagnostic is missing.
OutOfComponentsFallsThrough(part, found, p) ==
    /\ tapes' = [tapes EXCEPT ![found] = p.tape]
    /\ diag' = Append(diag, [msg |-> "We are out of components for",
                             arg |-> Key(part)])
    /\ out' = out \o Emit(part, tapes[found], p, Len(parts) + 1)

\* GetNextPos returned false: one diagnostic, return.  p.tape is the reel as
\* the call left it.
OutOfComponents(part, found, p) ==
    /\ tapes' = [tapes EXCEPT ![found] = p.tape]
    /\ diag' = Append(diag, [msg |-> "We are out of components for",
                             arg |-> Key(part)])
    /\ UNCHANGED out

\* The two printf calls.
PickAndPlace(part, found, p) ==
    /\ tapes' = [tapes EXCEPT ![found] = p.tape]
    /\ out' = out \o Emit(part, tapes[found], p, Len(parts) + 1)
    /\ UNCHANGED diag

PrintPart(part) ==
    /\ pc = "run"
    /\ Len(parts) < MaxParts
    /\ parts' = Append(parts, part)
    /\ LET found == Find(Key(part)) IN
       IF found = 0
       THEN NoTape(part)
       ELSE LET p == GetNextPos(tapes[found]) IN
            IF ~p.ok
            THEN OutOfComponents(part, found, p)
            ELSE PickAndPlace(part, found, p)
    /\ UNCHANGED <<pc, result, config_, current_tape, tape_for_component,
                   board_origin, nlines, histvars, seen, stream>>

Finish ==
    /\ pc = "run"
    /\ out' = Append(out, [kind |-> "postamble"])
    /\ pc' = "done"
    /\ UNCHANGED <<result, config_, cfgvars, diag, nlines, parts,
                   histvars, seen, stream>>

Next ==
    \/ ParseLine
    \/ ParseUnreadable
    \/ ParseReturn
    \/ Construct
    \/ InitPrinter
    \/ \E part \in Parts : PrintPart(part)
    \/ Finish

Spec == Init /\ [][Next]_vars

\* --------------------------------------------- generator, any target angle
\* The generator constructed from the configuration file "Tape: R@1 C@1",
\* after Init(): one reel with the constructor's values, both keys bound.
PlaceInit ==
    /\ stream = "good"
    /\ pc = "run"
    /\ result = TRUE
    /\ config_ = "config"
    /\ current_tape = 1
    /\ tapes = <<NewTape>>
    /\ tape_for_component = BindNames(NoBinding, {"R@1", "C@1"}, 1)
    /\ board_origin = [x |-> 0, y |-> 0]
    /\ out = <<[kind |-> "preamble"]>>
    /\ diag = <<>>
    /\ nlines = 1
    /\ parts = <<>>
    /\ listed = <<{"R@1", "C@1"}>>
    /\ last_angle = << <<>> >>
    /\ seen = {}
    /\ context = 1
    /\ last_board = <<>>

PlaceNext ==
    \/ \E part \in WideParts : PrintPart(part)
    \/ Finish

PlaceSpec == PlaceInit /\ [][PlaceNext]_vars

\* =================================================================== claims
\* A step that presents one more placement request, and that request.
Requested == pc = "run" /\ Len(parts') = Len(parts) + 1
NewPart == parts'[Len(parts')]
IsBound(k) == k \in DOMAIN tape_for_component
TapeIds == 1..Len(tapes)
Built == config_ = "config"
Body == SelectSeq(out, LAMBDA b : b.kind \in {"pick", "place"})

\* C1 - Sequential dispensing: a request resolved to a reel whose cursor c
\* is below its capacity is picked at (origin.x + c*dx, origin.y + c*dy,
\* origin.z) and moves the cursor to c + 1.
C1_Step ==
    Requested /\ IsBound(Key(NewPart)) =>
        LET t == tape_for_component[Key(NewPart)]
            r == tapes[t]
            c == r.cursor
        IN  c < r.capacity =>
              /\ tapes'[t].cursor = c + 1
              /\ Len(out') = Len(out) + 2
              /\ out'[Len(out) + 1].kind = "pick"
              /\ out'[Len(out) + 1].x = r.x + c * r.dx
              /\ out'[Len(out) + 1].y = r.y + c * r.dy
              /\ out'[Len(out) + 1].zdown = r.z
C1_SequentialDispensing == [][C1_Step]_vars

\* A reel with dx = 2 and capacity 2 served slots 0 and 1 to two successive
\* requests and then refused the third.
C1_Witness ==
    /\ Len(parts) = 3 /\ Len(out) = 5 /\ Len(diag) = 1
    /\ \E t \in TapeIds :
          /\ tapes[t].cursor = 2 /\ tapes[t].capacity = 2 /\ tapes[t].dx = 2
          /\ out[2].x = tapes[t].x
          /\ out[4].x = tapes[t].x + 2

\* C2 - Exhaustion is stable and non-mutating: during the run a reel with
\* cursor = capacity is left unchanged by every step, and a request resolved
\* to it gets the out-of-components result.
C2_Step ==
    pc = "run" =>
        \A t \in TapeIds :
            tapes[t].cursor = tapes[t].capacity =>
              /\ tapes'[t] = tapes[t]
              /\ (Requested /\ IsBound(Key(NewPart))
                    /\ tape_for_component[Key(NewPart)] = t) =>
                   /\ out' = out
                   /\ diag'[Len(diag')].msg = "We are out of components for"
C2_ExhaustionStable == [][C2_Step]_vars

\* Two requests in a row found the same reel exhausted.
C2_Witness ==
    /\ Len(parts) = 2 /\ Len(diag) = 2
    /\ diag[1].msg = "We are out of components for"
    /\ diag[2] = diag[1]
    /\ \E t \in TapeIds : tapes[t].cursor = tapes[t].capacity

\* C3 (as stated) - every key listed on a Tape: line resolves to the reel
\* that line created.
C3_AllListedKeysResolve ==
    Built => \A t \in 1..Len(listed) : \A k \in listed[t] :
                 IsBound(k) /\ tape_for_component[k] = t

\* A key of reel t's Tape: line that no later Tape: line lists again.
Kept(t, k) == k \in listed[t] /\ \A u \in (t + 1)..Len(listed) : k \notin listed[u]

C3_Resolve ==
    \A t \in 1..Len(listed) : \A k \in listed[t] :
        Kept(t, k) => IsBound(k) /\ tape_for_component[k] = t

C3_Shared ==
    Requested /\ IsBound(Key(NewPart)) =>
        LET t == tape_for_component[Key(NewPart)]
        IN  tapes[t].cursor # tapes[t].capacity =>
              \A k \in listed[t] :
                  Kept(t, k) =>
                      tapes'[tape_for_component'[k]].cursor = tapes[t].cursor + 1

\* C3 (amended) - the keys of one Tape: line that no later Tape: line lists
\* again resolve to the reel of that line and share its cursor: a request
\* accepted through one of them advances the slot the others receive next.
C3_Aliasing == [][C3_Resolve /\ C3_Resolve' /\ C3_Shared]_vars

\* Two requests through two different keys of one line took slots 0 and 1.
C3_Witness ==
    /\ Len(parts) = 2 /\ Key(parts[1]) # Key(parts[2])
    /\ \E t \in TapeIds :
          /\ {Key(parts[1]), Key(parts[2])} \subseteq listed[t]
          /\ Kept(t, Key(parts[1])) /\ Kept(t, Key(parts[2]))
          /\ tapes[t].cursor = 2

\* C4 - Missing feed: a request whose key is bound to no reel adds exactly
\* one diagnostic and leaves the command stream, every reel and the whole
\* configuration as they were.
C4_Step ==
    Requested /\ ~IsBound(Key(NewPart)) =>
        /\ Len(diag') = Len(diag) + 1
        /\ diag'[Len(diag')] = [msg |-> "No tape for", arg |-> Key(NewPart)]
        /\ SubSeq(diag', 1, Len(diag)) = diag
        /\ out' = out
        /\ tapes' = tapes
        /\ tape_for_component' = tape_for_component
        /\ board_origin' = board_origin
        /\ pc' = "run"
C4_MissingFeed == [][C4_Step]_vars

\* A request without a reel was skipped and the next one was accepted.
C4_Witness ==
    /\ Len(parts) = 2
    /\ ~IsBound(Key(parts[1]))
    /\ diag = <<[msg |-> "No tape for", arg |-> Key(parts[1])]>>
    /\ Len(Body) = 2 /\ Body[1].req = 2

\* C5 - Exhausted feed: a request whose reel has cursor = capacity adds a
\* diagnostic and no block, changes no reel's cursor, and leaves the run
\* going.
C5_Step ==
    Requested /\ IsBound(Key(NewPart)) =>
        LET t == tape_for_component[Key(NewPart)]
        IN  tapes[t].cursor = tapes[t].capacity =>
              /\ Len(diag') = Len(diag) + 1
              /\ diag'[Len(diag')] = [msg |-> "We are out of components for",
                                      arg |-> Key(NewPart)]
              /\ out' = out
              /\ \A u \in TapeIds : tapes'[u].cursor = tapes[u].cursor
              /\ Len(tapes') = Len(tapes)
              /\ pc' = "run"
C5_ExhaustedFeed == [][C5_Step]_vars

\* The first request found its reel exhausted, the second was served by
\* another reel.
C5_Witness ==
    /\ Len(parts) = 2
    /\ Len(diag) = 1 /\ diag[1].msg = "We are out of components for"
    /\ Len(Body) = 2 /\ Body[1].req = 2
    /\ tape_for_component[Key(parts[1])] # tape_for_component[Key(parts[2])]

\* C6 - Order preservation: the pick and place blocks of the stream come in
\* pairs, pick then place of one request, the pairs in the order of their
\* requests, one pair for each request that drew no diagnostic.
C6_OrderPreserved ==
    /\ Len(Body) % 2 = 0
    /\ \A j \in 1..(Len(Body) \div 2) :
          /\ Body[2 * j - 1].kind = "pick"
          /\ Body[2 * j].kind = "place"
          /\ Body[2 * j].req = Body[2 * j - 1].req
          /\ Body[2 * j - 1].req \in 1..Len(parts)
          /\ Body[2 * j - 1].name = PrintName(parts[Body[2 * j - 1].req])
          /\ Body[2 * j].name = PrintName(parts[Body[2 * j].req])
          /\ j > 1 => Body[2 * j - 1].req > Body[2 * j - 3].req
    /\ Built => (Len(Body) \div 2) + Len(diag) = Len(parts)

\* Requests 1 and 3 were accepted, request 2 was skipped.
C6_Witness ==
    /\ Len(parts) = 3
    /\ Len(Body) = 4
    /\ Body[1].req = 1 /\ Body[3].req = 3

\* No configuration reaches the generator: config_ is not the parsed Config,
\* and no request is ever presented.
NoFeedConfig == config_ # "config" /\ pc \notin {"constructed", "run", "done"}
                /\ parts = <<>>

\* C7 - once an origin:, spacing:, angle: or count: line with a malformed
\* numeric payload has been read, construction fails as a whole: no Config
\* is returned and no request is processed.
C7_MalformedIsFatal ==
    (\E d \in Directives : <<"malformed", d>> \in seen) => NoFeedConfig

\* C8 - once a spacing:, angle: or count: line has been read while no reel
\* was active, construction yields no Config.
C8_OrphanIsFatal ==
    (\E d \in Directives : <<"orphan", d>> \in seen) => NoFeedConfig

\* C9 - after successful construction the orientation of every reel equals
\* the value of the last well-formed angle: line read in its context.
C9_AngleIsSet ==
    Built => \A t \in TapeIds :
                 last_angle[t] # <<>> => TapeAngle(tapes[t]) = last_angle[t][1]

\* C10 - once a spacing: line with two zeros has been read in a reel's
\* context, construction fails: no Config is returned.
C10_ZeroSpacingIsFatal ==
    <<"zero", "spacing:">> \in seen => ~result /\ NoFeedConfig

\* A zero spacing was read and the constructor's assertion stopped the run.
C10_Witness ==
    /\ <<"zero", "spacing:">> \in seen
    /\ pc = "aborted"
    /\ diag = <<[msg |-> "Spacing: eat least one needs to be set"]>>

\* C11 - when the configuration input cannot be read, construction ends
\* with a fatal error: no Config is returned, nothing is written to the
\* command stream, and the run either has stopped on the constructor's
\* assertion or can still take a step that changes its state.
C11_UnreadableIsFatal ==
    stream = "fail" =>
        /\ NoFeedConfig
        /\ out = <<>>
        /\ pc = "aborted" \/ ENABLED <<Next>>_vars

\* C12 - a line whose directive is not recognized is silently ignored: the
\* step that reads it leaves the reels, the bindings, the board origin, the
\* parse context, the parse result and both output streams unchanged.
C12_Step ==
    nlines' # nlines =>
    \A token \in UnknownTokens : \A buffer \in BuffersFor(token) :
        ReadLine(token, buffer) =>
            UNCHANGED <<cfgvars, result, pc, config_, diag, out>>

C12_UnknownIgnored == [][C12_Step]_vars

\* An unknown directive was read after a reel was declared and sized, and
\* the parse went on to return a Config.
C12_Witness ==
    /\ <<"unknown", "feeder:">> \in seen
    /\ config_ = "config"
    /\ Len(tapes) = 1
    /\ tapes[1].capacity = 2
    /\ diag = <<>>

\* C13 - whatever the sign and magnitude of the target angle, the angle of
\* every place block, before scaling by ANGLE_FACTOR, is at least 0 and less
\* than 360.
C13_PlaceAngleInRange ==
    \A i \in DOMAIN out :
        out[i].kind = "place" =>
            /\ 0 <= out[i].e.num
            /\ out[i].e.num < ANGLE_FACTOR_NUM * 360

\* The state PlaceSpec starts in is a state of the program.
PlaceInitReached == ~PlaceInit

\* The orientation the configuration asks for reel t: the value of the last
\* well-formed angle: line in its context, else the constructor's value.
Orientation(t) ==
    IF last_angle[t] # <<>> THEN last_angle[t][1] ELSE TapeAngle(NewTape)

\* C14 - the angle of every pick block, before scaling by ANGLE_FACTOR, is
\* the orientation of the reel that serves the request reduced modulo 360,
\* at least 0 and less than 360.
C14_PickAngleIsOrientation ==
    \A i \in DOMAIN out :
        out[i].kind = "pick" =>
            LET t == tape_for_component[Key(parts[out[i].req])] IN
            /\ out[i].e = Scaled(Orientation(t) % 360)
            /\ 0 <= out[i].e.num
            /\ out[i].e.num < ANGLE_FACTOR_NUM * 360

\* C15 - every place block hovers over the target moved by the board
\* origin that the last origin: line in board context gave, at the hover
\* height of the pick block of the same request.
C15_BoardOffset ==
    \A i \in DOMAIN out :
        out[i].kind = "place" =>
            /\ last_board # <<>> =>
                  /\ out[i].x = parts[out[i].req].pos[1] + last_board[1]
                  /\ out[i].y = parts[out[i].req].pos[2] + last_board[2]
            /\ \E j \in DOMAIN out :
                  /\ out[j].kind = "pick"
                  /\ out[j].req = out[i].req
                  /\ out[j].zup = out[i].zup

\* Board origin (2, 0), a reel at height 2: the target (5, 5) is placed
\* from (7, 5) at height 12, the height of the pick hover point.
C15_Witness ==
    /\ last_board = <<2, 0>>
    /\ \E i \in DOMAIN out :
          /\ out[i].kind = "place"
          /\ out[i].x = 7
          /\ out[i].y = 5
          /\ out[i].zup = 12
          /\ out[i - 1].kind = "pick"
          /\ out[i - 1].zup = 12

\* C16 - once a Config was built, every reel has 0 <= cursor <= capacity,
\* whatever integer a count: line gave and also without a count: line, and
\* no step makes a cursor smaller.
C16_Step ==
    /\ Built' => \A t \in DOMAIN tapes' :
                    /\ 0 <= tapes'[t].cursor
                    /\ tapes'[t].cursor <= tapes'[t].capacity
    /\ \A t \in DOMAIN tapes :
          t \in DOMAIN tapes' /\ tapes[t].cursor <= tapes'[t].cursor

C16_CursorBounds == [][C16_Step]_vars

\* C17 - a line other than Tape: read in the context of a reel (an origin:,
\* spacing: or count: line among them) changes no other reel, creates none
\* and leaves the board origin as it was; a line other than Tape: read in
\* board context (before any Tape:, or after a Board: with no later Tape:)
\* leaves every reel as it was, and after an origin: line with two numbers
\* read there the board origin is those numbers.
C17_Step ==
    nlines' # nlines /\ listed' = listed =>
        /\ context # 0 =>
              /\ board_origin' = board_origin
              /\ Len(tapes') = Len(tapes)
              /\ \A t \in DOMAIN tapes : t # context => tapes'[t] = tapes[t]
        /\ context = 0 => tapes' = tapes
        /\ result' /\ last_board' # <<>> =>
              /\ board_origin'.x = last_board'[1]
              /\ board_origin'.y = last_board'[2]

C17_ContextApplies == [][C17_Step]_vars

\* Two reels were opened and a count: 2 line followed: the second reel has
\* capacity 2, the first is as its constructor left it.
C17_Witness ==
    /\ Built
    /\ Len(tapes) = 2
    /\ context = 2
    /\ tapes[2].capacity = 2
    /\ tapes[1] = NewTape
    /\ board_origin = [x |-> 0, y |-> 0]

\* The requests that produced a pick / place pair served by reel t.
PairsFrom(t) ==
    {i \in DOMAIN out :
        /\ out[i].kind = "pick"
        /\ out[i + 1].kind = "place"
        /\ out[i + 1].req = out[i].req
        /\ tape_for_component[Key(parts[out[i].req])] = t}

\* C18 - once a Config was built, the cursor of every reel is the number of
\* pick / place pairs written for requests whose key maps to it (skipped
\* requests count for nothing), and that number is at most its capacity.
C18_CursorAccounting ==
    Built =>
        \A t \in DOMAIN tapes :
            /\ tapes[t].cursor = Cardinality(PairsFrom(t))
            /\ Cardinality(PairsFrom(t)) <= tapes[t].capacity

\* The reel that served the request of block i.
ServedBy(i) == tape_for_component[Key(parts[out[i].req])]

====
